---- MODULE Spec2Model ----
(***************************************************************************)
(* Committee-ranking season simulator (PetersQuinn/CFPEvaluation).         *)
(*                                                                         *)
(* Two programs are modelled side by side:                                 *)
(*   "Standard": SOSPreseasonBiasFull134StandardCommittee100Runs.py        *)
(*               (inverted preseason ranking)                              *)
(*   "Harsher" : SOSPreseasonBiasFull134HarsherCommittee100Runs.py         *)
(*               (tier-shuffled preseason ranking)                         *)
(*                                                                         *)
(* A team dict is a record [name, true_rank, cfp_rank, season_points];     *)
(* the name "Team #i" is the integer i.  The list `teams` keeps creation   *)
(* order, so teams[i] is the dict of "Team #i".  Lists that hold           *)
(* references to those dicts (current_cfp_order, teams_sorted, ...) are     *)
(* sequences of names; copy.deepcopy turns them into sequences of records. *)
(* Probabilities are kept in hundredths (0.65 is 65).                      *)
(***************************************************************************)
EXTENDS Integers, Sequences, FiniteSets, TLC

\* ------------------------------------------------------------ parameters
DEFAULT_NUM_TEAMS == 134

\* Largest num_teams of a simulated season.
MaxTeams == 4
\* Largest num_weeks of a simulated season.
MaxWeeks == 2
\* Largest rotation of a tier that random.shuffle is allowed to produce when
\* the tier is too long to enumerate all of its orders.
MaxShift == 3

\* The value None of a cfp_rank that has not been assigned yet.
None == 0

VARIABLES variant, num_teams, num_weeks, pc, teams, current_cfp_order,
          weekly_rankings, w, matchups, last_week_map, mi, awards,
          stats, averages,
          fn, arg_a, arg_b, arg_win, ret, ret_swapped

simvars == <<variant, num_teams, num_weeks, pc, teams, current_cfp_order,
             weekly_rankings, w, matchups, last_week_map, mi, awards,
             stats, averages>>
fnvars == <<fn, arg_a, arg_b, arg_win, ret, ret_swapped>>
vars == <<variant, num_teams, num_weeks, pc, teams, current_cfp_order,
          weekly_rankings, w, matchups, last_week_map, mi, awards,
          stats, averages,
          fn, arg_a, arg_b, arg_win, ret, ret_swapped>>

\* ------------------------------------------------------------ list helpers
abs(x) == IF x < 0 THEN 0 - x ELSE x

\* range(n) as a list: 0, 1, ..., n-1.
range(n) == [k \in 1..n |-> k - 1]

\* The names of the dicts of `teams`, in list order.
NamesOf(ts) == [k \in 1..Len(ts) |-> ts[k].name]

\* list.sort / sorted with a key: a stable sort, ascending in key.  The
\* element at input position i lands after every element with a smaller key
\* and after the elements with an equal key that precede it in the input.
StableSort(s, key) ==
    LET n == Len(s)
        k == SubSeq([i \in 1..n |-> key[s[i]]], 1, n)
        pos == SubSeq([i \in 1..n |->
                         Cardinality({j \in 1..n :
                             \/ k[j] < k[i]
                             \/ (k[j] = k[i] /\ j <= i)})], 1, n)
    IN [p \in 1..n |-> s[CHOOSE i \in 1..n : pos[i] = p]]

\* sort(..., reverse=True): descending in key, equal keys keep input order.
StableSortReverse(s, key) ==
    StableSort(s, [x \in DOMAIN key |-> 0 - key[x]])

\* Every order of the elements of the list s.
Orders(s) ==
    LET n == Len(s)
        P == {p \in [1..n -> 1..n] : \A i, j \in 1..n : i # j => p[i] # p[j]}
    IN {[k \in 1..n |-> s[p[k]]] : p \in P}

Rotate(s, k) == [i \in 1..Len(s) |-> s[((i - 1 + k) % Len(s)) + 1]]
Reverse(s) == [i \in 1..Len(s) |-> s[Len(s) + 1 - i]]

\* The results random.shuffle can leave in a list: every order of a short
\* list; for a long one the rotations by 0..MaxShift of the list and of its
\* reverse.
shuffle(s) ==
    IF Len(s) <= MaxTeams THEN Orders(s)
    ELSE {Rotate(s, k) : k \in 0..MaxShift}
         \cup {Rotate(Reverse(s), k) : k \in 0..MaxShift}

\* list slices s[:hi] and s[lo:hi] and s[lo:] of Python (0-based, clipped).
Slice(s, lo, hi) ==
    LET h == IF hi > Len(s) THEN Len(s) ELSE hi
    IN IF lo >= h THEN <<>> ELSE SubSeq(s, lo + 1, h)

\* copy.deepcopy of a list of references into `ts`: the dicts by value.
deepcopy(order, ts) == [k \in 1..Len(order) |-> ts[order[k]]]

\* ------------------------------------------------------------ Standard file
\* generate_teams without the inversion: cfp_rank = i.
generate_teams_NotInverted(n) ==
    [i \in 1..n |-> [name |-> i, true_rank |-> i,
                     cfp_rank |-> i, season_points |-> 0]]

\* generate_teams: inverted preseason, the best team gets the last cfp_rank.
generate_teams(n) ==
    [i \in 1..n |-> [name |-> i, true_rank |-> i,
                     cfp_rank |-> n - i + 1, season_points |-> 0]]

\* probability_of_win with the bins read on diff instead of abs(diff).
probability_of_win_SignedBins(team_a_true, team_b_true) ==
    LET diff == team_b_true - team_a_true
        base_prob == IF diff <= 5 THEN 50
                     ELSE IF diff <= 10 THEN 65
                     ELSE IF diff <= 15 THEN 75
                     ELSE IF diff <= 25 THEN 85
                     ELSE IF diff <= 50 THEN 95
                     ELSE IF diff <= 100 THEN 98
                     ELSE 99
    IN IF diff > 0 THEN base_prob ELSE 100 - base_prob

\* probability_of_win, in hundredths.  The floats the code returns are
\* base_prob and 1 - base_prob with base_prob in [0.5, 1): that subtraction
\* is exact in binary floating point, and so is base_prob + (1 - base_prob).
probability_of_win(team_a_true, team_b_true) ==
    LET diff == team_b_true - team_a_true
        abs_diff == abs(diff)
        base_prob == IF abs_diff <= 5 THEN 50
                     ELSE IF abs_diff <= 10 THEN 65
                     ELSE IF abs_diff <= 15 THEN 75
                     ELSE IF abs_diff <= 25 THEN 85
                     ELSE IF abs_diff <= 50 THEN 95
                     ELSE IF abs_diff <= 100 THEN 98
                     ELSE 99
    IN IF diff > 0 THEN base_prob ELSE 100 - base_prob

\* determine_cfp_points with the first bin closed one rank early (diff < 7).
determine_cfp_points_Lt7(team_cfp_rank, opponent_cfp_rank, did_win) ==
    LET diff == opponent_cfp_rank - team_cfp_rank
    IN IF did_win
       THEN IF opponent_cfp_rank < team_cfp_rank \/ diff < 7 THEN 5
            ELSE IF diff <= 24 THEN 4
            ELSE 3
       ELSE IF opponent_cfp_rank < team_cfp_rank THEN 3
            ELSE IF diff < 7 THEN 2
            ELSE IF diff <= 24 THEN 1
            ELSE 0

\* determine_cfp_points with a loss to a team up to 7 spots below scored 4.
determine_cfp_points_NearLoss4(team_cfp_rank, opponent_cfp_rank, did_win) ==
    LET diff == opponent_cfp_rank - team_cfp_rank
    IN IF did_win
       THEN IF opponent_cfp_rank < team_cfp_rank \/ diff <= 7 THEN 5
            ELSE IF diff <= 24 THEN 4
            ELSE 3
       ELSE IF opponent_cfp_rank < team_cfp_rank THEN 3
            ELSE IF diff <= 7 THEN 4
            ELSE IF diff <= 24 THEN 1
            ELSE 0

determine_cfp_points(team_cfp_rank, opponent_cfp_rank, did_win) ==
    LET diff == opponent_cfp_rank - team_cfp_rank
    IN IF did_win
       THEN IF opponent_cfp_rank < team_cfp_rank \/ diff <= 7 THEN 5
            ELSE IF diff <= 24 THEN 4
            ELSE 3
       ELSE IF opponent_cfp_rank < team_cfp_rank THEN 3
            ELSE IF diff <= 7 THEN 2
            ELSE IF diff <= 24 THEN 1
            ELSE 0

\* break_ties without the sort by last week's position.
break_ties_PointsOnly(teams_sorted, teams_last_week, ts) ==
    StableSortReverse(teams_sorted,
                      [nm \in 1..Len(ts) |-> ts[nm].season_points])

\* break_ties with the points sort ascending (reverse=True dropped).
break_ties_Ascending(teams_sorted, teams_last_week, ts) ==
    LET name_to_idx == [nm \in {teams_last_week[i] : i \in 1..Len(teams_last_week)}
                          |-> (CHOOSE i \in 1..Len(teams_last_week) :
                                   teams_last_week[i] = nm) - 1]
        by_last_week == StableSort(teams_sorted, name_to_idx)
    IN StableSort(by_last_week,
                  [nm \in 1..Len(ts) |-> ts[nm].season_points])

\* break_ties: sort by last week's position, then stably by points descending.
break_ties(teams_sorted, teams_last_week, ts) ==
    LET name_to_idx == [nm \in {teams_last_week[i] : i \in 1..Len(teams_last_week)}
                          |-> (CHOOSE i \in 1..Len(teams_last_week) :
                                   teams_last_week[i] = nm) - 1]
        by_last_week == StableSort(teams_sorted, name_to_idx)
    IN StableSortReverse(by_last_week,
                         [nm \in 1..Len(ts) |-> ts[nm].season_points])

\* ------------------------------------------------------------ Harsher file
\* generate_teams of the Harsher file: cfp_rank is left None.
Harsher_generate_teams(n) ==
    [i \in 1..n |-> [name |-> i, true_rank |-> i,
                     cfp_rank |-> None, season_points |-> 0]]

\* sorted(teams, key=true_rank) of assign_preseason_tiers.
sorted_by_true(ts) ==
    StableSort(NamesOf(ts), [nm \in 1..Len(ts) |-> ts[nm].true_rank])
tier1(ts) == Slice(sorted_by_true(ts), 0, 34)
tier2(ts) == Slice(sorted_by_true(ts), 34, 84)
tier3(ts) == Slice(sorted_by_true(ts), 84, Len(ts))

\* assign_preseason_tiers with the tiers concatenated out of order.
assign_preseason_tiers_Misordered(ts, s1, s2, s3) ==
    LET combined == s2 \o s1 \o s3
        ts2 == SubSeq([nm \in 1..Len(ts) |->
                  IF \E i \in 1..Len(combined) : combined[i] = nm
                  THEN [ts[nm] EXCEPT !.cfp_rank =
                          CHOOSE i \in 1..Len(combined) : combined[i] = nm]
                  ELSE ts[nm]], 1, Len(ts))
    IN [teams |-> ts2,
        order |-> StableSort(combined, [nm \in 1..Len(ts) |-> ts2[nm].cfp_rank])]

\* assign_preseason_tiers (the later of the file's two identical definitions
\* is the one bound when simulate_single_season runs), given the three tiers
\* as random.shuffle left them.  Returns the mutated dicts and the returned
\* list.
assign_preseason_tiers(ts, s1, s2, s3) ==
    LET combined == s1 \o s2 \o s3
        ts2 == SubSeq([nm \in 1..Len(ts) |->
                  IF \E i \in 1..Len(combined) : combined[i] = nm
                  THEN [ts[nm] EXCEPT !.cfp_rank =
                          CHOOSE i \in 1..Len(combined) : combined[i] = nm]
                  ELSE ts[nm]], 1, Len(ts))
    IN [teams |-> ts2,
        order |-> StableSort(combined, [nm \in 1..Len(ts) |-> ts2[nm].cfp_rank])]

Harsher_probability_of_win(team_a_true, team_b_true) ==
    LET diff == team_b_true - team_a_true
        abs_diff == abs(diff)
        base_prob == IF abs_diff <= 5 THEN 50
                     ELSE IF abs_diff <= 10 THEN 65
                     ELSE IF abs_diff <= 15 THEN 75
                     ELSE IF abs_diff <= 25 THEN 85
                     ELSE IF abs_diff <= 50 THEN 95
                     ELSE IF abs_diff <= 100 THEN 98
                     ELSE 99
    IN IF diff > 0 THEN base_prob ELSE 100 - base_prob

Harsher_determine_cfp_points(team_cfp_rank, opponent_cfp_rank, did_win) ==
    LET diff == opponent_cfp_rank - team_cfp_rank
    IN IF did_win
       THEN IF opponent_cfp_rank < team_cfp_rank \/ diff <= 7 THEN 5
            ELSE IF diff <= 24 THEN 4
            ELSE 3
       ELSE IF opponent_cfp_rank < team_cfp_rank THEN 3
            ELSE IF diff <= 7 THEN 2
            ELSE IF diff <= 24 THEN 1
            ELSE 0

Harsher_break_ties(teams_sorted, teams_last_week, ts) ==
    LET name_to_idx == [nm \in {teams_last_week[i] : i \in 1..Len(teams_last_week)}
                          |-> (CHOOSE i \in 1..Len(teams_last_week) :
                                   teams_last_week[i] = nm) - 1]
        by_last_week == StableSort(teams_sorted, name_to_idx)
    IN StableSortReverse(by_last_week,
                         [nm \in 1..Len(ts) |-> ts[nm].season_points])

\* ------------------------------------------------------------ the week loop
\* (shared text of simulate_single_season in both files)

\* The pairing with step 1 instead of 2: consecutive pairs overlap.
Matchups_Overlapping(indices) ==
    [k \in 1..(Len(indices) - 1) |-> <<indices[k], indices[k + 1]>>]

\* matchups = [(indices[i], indices[i+1]) for i in range(0, num_teams, 2)]
\* for an even number of indices.
Matchups(indices) ==
    [k \in 1..(Len(indices) \div 2) |-> <<indices[2 * k - 1], indices[2 * k]>>]

\* The rank map read from the roster position instead of last week's order.
LastWeekMap_ByName(order) ==
    [nm \in {order[i] : i \in 1..Len(order)} |-> nm]

\* last_week_map = {t['name']: idx+1 for idx, t in enumerate(current_cfp_order)}
LastWeekMap(order) ==
    [nm \in {order[i] : i \in 1..Len(order)} |->
        CHOOSE i \in 1..Len(order) : order[i] = nm]

\* The renumbering without the + 1.
UpdateCfpRank_ZeroBased(ts, new_cfp_order) ==
    [nm \in 1..Len(ts) |->
        IF \E i \in 1..Len(new_cfp_order) : new_cfp_order[i] = nm
        THEN [ts[nm] EXCEPT !.cfp_rank =
                (CHOOSE i \in 1..Len(new_cfp_order) : new_cfp_order[i] = nm) - 1]
        ELSE ts[nm]]

\* for rank_pos, tdict in enumerate(new_cfp_order): tdict['cfp_rank'] = rank_pos + 1
UpdateCfpRank(ts, new_cfp_order) ==
    [nm \in 1..Len(ts) |->
        IF \E i \in 1..Len(new_cfp_order) : new_cfp_order[i] = nm
        THEN [ts[nm] EXCEPT !.cfp_rank =
                (CHOOSE i \in 1..Len(new_cfp_order) : new_cfp_order[i] = nm)]
        ELSE ts[nm]]

\* a_wins = (random.random() < p_a_wins) with random() uniform in [0, 1).
\* ------------------------------------------------------------ weekly statistics
\* Python's sum of a list of ints and max of a collection of ints.
RECURSIVE sum(_)
sum(s) == IF s = <<>> THEN 0 ELSE s[Len(s)] + sum(SubSeq(s, 1, Len(s) - 1))

max(S) == CHOOSE x \in S : \A y \in S : y <= x

RECURSIVE GCD(_, _)
GCD(a, b) == IF b = 0 THEN a ELSE GCD(b, a % b)

\* A float is the number num/den in lowest terms.  a / b of two ints, the
\* float of an int, x + y of two floats and x / k of a float by an int.
TrueDiv(a, b) == LET g == GCD(a, b) IN <<a \div g, b \div g>>
float(a) == <<a, 1>>
FloatAdd(x, y) == TrueDiv(x[1] * y[2] + y[1] * x[2], x[2] * y[2])
FloatDiv(x, k) == TrueDiv(x[1], x[2] * k)

\* d = {team['name']: team['cfp_rank'] for team in snapshot}
WeekMap(snapshot) ==
    [nm \in {snapshot[i].name : i \in 1..Len(snapshot)} |->
        (CHOOSE t \in {snapshot[i] : i \in 1..Len(snapshot)} :
            t.name = nm).cfp_rank]

\* diffs = [abs(team['cfp_rank'] - team['true_rank']) for team in snapshot]
Diffs(snapshot) ==
    [i \in 1..Len(snapshot) |->
        abs(snapshot[i].cfp_rank - snapshot[i].true_rank)]

\* The inner loop over map_this: the largest old_rank - new_rank above 0.
best_improvement(map_prev, map_this) ==
    max({0} \cup {map_prev[nm] - map_this[nm] : nm \in DOMAIN map_this})

\* drop taken one too small.
worst_drop_OffByOne(map_prev, map_this) ==
    max({0} \cup {map_this[nm] - map_prev[nm] - 1 : nm \in DOMAIN map_this})

\* The inner loop over map_this: the largest new_rank - old_rank above 0.
worst_drop(map_prev, map_this) ==
    max({0} \cup {map_this[nm] - map_prev[nm] : nm \in DOMAIN map_this})

\* compute_weekly_stats with the second loop started at week 0: Python's
\* week_to_map[-1] is the last week.
compute_weekly_stats_FromWeek0(wr) ==
    LET n == Len(wr)
        week_to_map == [k \in 1..n |-> WeekMap(wr[k])]
        prev(k) == IF k = 1 THEN n ELSE k - 1
    IN [avg_diff |-> [k \in 1..n |->
                        TrueDiv(sum(Diffs(wr[k])), Len(Diffs(wr[k])))],
        max_diff |-> [k \in 1..n |->
                        max({Diffs(wr[k])[i] : i \in 1..Len(wr[k])})],
        biggest_rise |-> [k \in 1..n |->
                            best_improvement(week_to_map[prev(k)],
                                             week_to_map[k])],
        biggest_fall |-> [k \in 1..n |->
                            worst_drop(week_to_map[prev(k)], week_to_map[k])],
        avg_diff25 |-> [k \in 1..n |->
                          LET diffs25 == Diffs(Slice(wr[k], 0, 25))
                          IN TrueDiv(sum(diffs25), Len(diffs25))],
        max_diff25 |-> [k \in 1..n |->
                          LET diffs25 == Diffs(Slice(wr[k], 0, 25))
                          IN max({diffs25[i] : i \in 1..Len(diffs25)})]]

\* compute_weekly_stats(weekly_rankings): six series, entry k for week k - 1.
\* biggest_rise and biggest_fall keep their initial 0 at week 0; the second
\* loop is range(1, num_weeks).
compute_weekly_stats(wr) ==
    LET n == Len(wr)
        week_to_map == [k \in 1..n |-> WeekMap(wr[k])]
    IN [avg_diff |-> [k \in 1..n |->
                        TrueDiv(sum(Diffs(wr[k])), Len(Diffs(wr[k])))],
        max_diff |-> [k \in 1..n |->
                        max({Diffs(wr[k])[i] : i \in 1..Len(wr[k])})],
        biggest_rise |-> [k \in 1..n |->
                            IF k = 1 THEN 0
                            ELSE best_improvement(week_to_map[k - 1],
                                                  week_to_map[k])],
        biggest_fall |-> [k \in 1..n |->
                            IF k = 1 THEN 0
                            ELSE worst_drop(week_to_map[k - 1],
                                            week_to_map[k])],
        avg_diff25 |-> [k \in 1..n |->
                          LET diffs25 == Diffs(Slice(wr[k], 0, 25))
                          IN TrueDiv(sum(diffs25), Len(diffs25))],
        max_diff25 |-> [k \in 1..n |->
                          LET diffs25 == Diffs(Slice(wr[k], 0, 25))
                          IN max({diffs25[i] : i \in 1..Len(diffs25)})]]

\* sum(run[w] for run in all_x) of a float series and of an int series.
RECURSIVE SumFloatAt(_, _, _)
SumFloatAt(all_runs, series, k) ==
    IF all_runs = <<>> THEN float(0)
    ELSE FloatAdd(SumFloatAt(SubSeq(all_runs, 1, Len(all_runs) - 1), series, k),
                  all_runs[Len(all_runs)][series][k])

RECURSIVE SumIntAt(_, _, _)
SumIntAt(all_runs, series, k) ==
    IF all_runs = <<>> THEN 0
    ELSE SumIntAt(SubSeq(all_runs, 1, Len(all_runs) - 1), series, k)
         + all_runs[Len(all_runs)][series][k]

\* The averages with the sums divided by weeks_count.
AverageOverRuns_ByWeeksCount(all_runs, num_runs, weeks_count) ==
    LET avgF(series) == [k \in 1..weeks_count |->
                           FloatDiv(SumFloatAt(all_runs, series, k), weeks_count)]
        avgI(series) == [k \in 1..weeks_count |->
                           TrueDiv(SumIntAt(all_runs, series, k), weeks_count)]
    IN [avg_diff |-> avgF("avg_diff"), max_diff |-> avgI("max_diff"),
        biggest_rise |-> avgI("biggest_rise"),
        biggest_fall |-> avgI("biggest_fall"),
        avg_diff25 |-> avgF("avg_diff25"), max_diff25 |-> avgI("max_diff25")]

\* The second half of run_multiple_simulations: for each week the sum over
\* the runs of each series divided by num_runs.
AverageOverRuns(all_runs, num_runs, weeks_count) ==
    LET avgF(series) == [k \in 1..weeks_count |->
                           FloatDiv(SumFloatAt(all_runs, series, k), num_runs)]
        avgI(series) == [k \in 1..weeks_count |->
                           TrueDiv(SumIntAt(all_runs, series, k), num_runs)]
    IN [avg_diff |-> avgF("avg_diff"), max_diff |-> avgI("max_diff"),
        biggest_rise |-> avgI("biggest_rise"),
        biggest_fall |-> avgI("biggest_fall"),
        avg_diff25 |-> avgF("avg_diff25"), max_diff25 |-> avgI("max_diff25")]

Outcomes(p_a_wins) ==
    {b \in BOOLEAN : (b => p_a_wins > 0) /\ (~b => p_a_wins < 100)}

Variants == {"Standard", "Harsher"}

ProbabilityOfWin(v, a, b) ==
    IF v = "Standard" THEN probability_of_win(a, b)
    ELSE Harsher_probability_of_win(a, b)
DetermineCfpPoints(v, own, opp, won) ==
    IF v = "Standard" THEN determine_cfp_points(own, opp, won)
    ELSE Harsher_determine_cfp_points(own, opp, won)
BreakTies(v, teams_sorted, teams_last_week, ts) ==
    IF v = "Standard" THEN break_ties(teams_sorted, teams_last_week, ts)
    ELSE Harsher_break_ties(teams_sorted, teams_last_week, ts)

\* ------------------------------------------------------------ one matchup
\* The two awards computed from the standings as they are when the matchup is
\* scored (by points, ties by last week's rank) instead of from last_week_map.
MatchupPoints_LiveStandings(v, ts, lwm, m, a_wins) ==
    LET LiveRank(nm) ==
            1 + Cardinality({o \in 1..Len(ts) :
                    \/ ts[o].season_points > ts[nm].season_points
                    \/ /\ ts[o].season_points = ts[nm].season_points
                       /\ lwm[ts[o].name] < lwm[ts[nm].name]})
        cfp_a == LiveRank(m[1] + 1)
        cfp_b == LiveRank(m[2] + 1)
    IN <<DetermineCfpPoints(v, cfp_a, cfp_b, a_wins),
         DetermineCfpPoints(v, cfp_b, cfp_a, ~a_wins)>>

\* pts_a and pts_b of the matchup m = (idx_a, idx_b) won by team_a iff a_wins:
\* both are read from last_week_map.
MatchupPoints(v, ts, lwm, m, a_wins) ==
    LET team_a == ts[m[1] + 1]
        team_b == ts[m[2] + 1]
        cfp_a == lwm[team_a.name]
        cfp_b == lwm[team_b.name]
    IN <<DetermineCfpPoints(v, cfp_a, cfp_b, a_wins),
         DetermineCfpPoints(v, cfp_b, cfp_a, ~a_wins)>>

\* The roster after the matchup: team_a['season_points'] += pts_a and
\* team_b['season_points'] += pts_b.
ScoreMatchup(v, ts, lwm, m, a_wins) ==
    LET pts == MatchupPoints(v, ts, lwm, m, a_wins)
        ts1 == [ts EXCEPT ![m[1] + 1].season_points = @ + pts[1]]
    IN [ts1 EXCEPT ![m[2] + 1].season_points = @ + pts[2]]

\* The matchup loop run over the matchups ms in the order `order` (a list of
\* positions in ms), matchup i ending as wins[i] says.
RECURSIVE ScoreMatchupsInOrder(_, _, _, _, _, _)
ScoreMatchupsInOrder(v, ts, lwm, ms, wins, order) ==
    IF order = <<>> THEN ts
    ELSE ScoreMatchupsInOrder(v,
             ScoreMatchup(v, ts, lwm, ms[Head(order)], wins[Head(order)]),
             lwm, ms, wins, Tail(order))

IdleFn ==
    /\ fn = "none" /\ arg_a = 0 /\ arg_b = 0 /\ arg_win = FALSE
    /\ ret = 0 /\ ret_swapped = 0

InitSim(teamCounts, weekCounts, variantsUsed) ==
    /\ variant \in variantsUsed
    /\ num_teams \in teamCounts
    /\ num_weeks \in weekCounts
    /\ pc = "start"
    /\ teams = <<>>
    /\ current_cfp_order = <<>>
    /\ weekly_rankings = <<>>
    /\ w = 0
    /\ matchups = <<>>
    /\ last_week_map = <<>>
    /\ mi = 0
    /\ awards = <<>>
    /\ stats = <<>>
    /\ averages = <<>>

Init == InitSim(2..MaxTeams, 0..MaxWeeks, Variants) /\ IdleFn

\* Standard file, lines 139-142: roster, preseason order, week-0 snapshot.
PreseasonStandard ==
    /\ pc = "start" /\ variant = "Standard"
    /\ LET ts == generate_teams(num_teams)
           order == StableSort(NamesOf(ts),
                               [nm \in 1..Len(ts) |-> ts[nm].cfp_rank])
       IN /\ teams' = ts
          /\ current_cfp_order' = order
          /\ weekly_rankings' = <<deepcopy(order, ts)>>
    /\ w' = 1
    /\ pc' = "week"
    /\ UNCHANGED <<variant, num_teams, num_weeks, matchups, last_week_map,
                   mi, awards>>
    /\ UNCHANGED <<stats, averages>>
    /\ UNCHANGED fnvars

\* Harsher file, lines 180-187.
PreseasonHarsher ==
    /\ pc = "start" /\ variant = "Harsher"
    /\ LET ts == Harsher_generate_teams(num_teams)
       IN \E s1 \in shuffle(tier1(ts)), s2 \in shuffle(tier2(ts)),
             s3 \in shuffle(tier3(ts)) :
            LET r == assign_preseason_tiers(ts, s1, s2, s3)
            IN /\ teams' = r.teams
               /\ current_cfp_order' = r.order
               /\ weekly_rankings' = <<deepcopy(r.order, r.teams)>>
    /\ w' = 1
    /\ pc' = "week"
    /\ UNCHANGED <<variant, num_teams, num_weeks, matchups, last_week_map,
                   mi, awards>>
    /\ UNCHANGED <<stats, averages>>
    /\ UNCHANGED fnvars

\* Top of the loop body for an even roster: shuffle, pair, freeze the ranks.
BeginWeek ==
    /\ pc = "week" /\ w <= num_weeks
    /\ num_teams % 2 = 0
    /\ \E indices \in shuffle(range(num_teams)) :
          matchups' = Matchups(indices)
    /\ last_week_map' = LastWeekMap(current_cfp_order)
    /\ mi' = 1
    /\ awards' = <<>>
    /\ pc' = "match"
    /\ UNCHANGED <<variant, num_teams, num_weeks, teams, current_cfp_order,
                   weekly_rankings, w>>
    /\ UNCHANGED <<stats, averages>>
    /\ UNCHANGED fnvars

\* With an odd roster the comprehension reads indices[num_teams]: IndexError.
BeginWeekIndexError ==
    /\ pc = "week" /\ w <= num_weeks
    /\ num_teams % 2 = 1
    /\ pc' = "error"
    /\ UNCHANGED <<variant, num_teams, num_weeks, teams, current_cfp_order,
                   weekly_rankings, w, matchups, last_week_map, mi, awards>>
    /\ UNCHANGED <<stats, averages>>
    /\ UNCHANGED fnvars

\* One iteration of `for idx_a, idx_b in matchups`.
PlayMatchup ==
    /\ pc = "match" /\ mi <= Len(matchups)
    /\ LET idx_a == matchups[mi][1]
           idx_b == matchups[mi][2]
           team_a == teams[idx_a + 1]
           team_b == teams[idx_b + 1]
           p_a_wins == ProbabilityOfWin(variant, team_a.true_rank, team_b.true_rank)
       IN \E a_wins \in Outcomes(p_a_wins) :
            LET pts == MatchupPoints(variant, teams, last_week_map,
                                     matchups[mi], a_wins)
            IN /\ teams' = ScoreMatchup(variant, teams, last_week_map,
                                        matchups[mi], a_wins)
               /\ awards' = Append(awards,
                                   [a |-> team_a.name, b |-> team_b.name,
                                    a_wins |-> a_wins,
                                    pts_a |-> pts[1], pts_b |-> pts[2]])
    /\ mi' = mi + 1
    /\ UNCHANGED <<variant, num_teams, num_weeks, pc, current_cfp_order,
                   weekly_rankings, w, matchups, last_week_map>>
    /\ UNCHANGED <<stats, averages>>
    /\ UNCHANGED fnvars

\* EndWeek appending new_cfp_order itself instead of a deep copy: the
\* snapshots appended by earlier iterations are lists of the live dicts and
\* show whatever the dicts hold now.
EndWeek_Aliased ==
    /\ pc = "match" /\ mi > Len(matchups)
    /\ LET teams_sorted ==
               StableSortReverse(NamesOf(teams),
                                 [nm \in 1..Len(teams) |-> teams[nm].season_points])
           new_cfp_order == BreakTies(variant, teams_sorted, current_cfp_order, teams)
           ts == UpdateCfpRank(teams, new_cfp_order)
           earlier == [k \in 1..Len(weekly_rankings) |->
                         IF k = 1 THEN weekly_rankings[k]
                         ELSE [i \in 1..Len(weekly_rankings[k]) |->
                                  ts[weekly_rankings[k][i].name]]]
       IN /\ teams' = ts
          /\ weekly_rankings' = Append(earlier, deepcopy(new_cfp_order, ts))
          /\ current_cfp_order' = new_cfp_order
    /\ w' = w + 1
    /\ pc' = "week"
    /\ UNCHANGED <<variant, num_teams, num_weeks, matchups, last_week_map,
                   mi, awards>>
    /\ UNCHANGED <<stats, averages>>
    /\ UNCHANGED fnvars

\* After the matchups: re-sort, break ties, renumber, snapshot.
EndWeek ==
    /\ pc = "match" /\ mi > Len(matchups)
    /\ LET teams_sorted ==
               StableSortReverse(NamesOf(teams),
                                 [nm \in 1..Len(teams) |-> teams[nm].season_points])
           new_cfp_order == BreakTies(variant, teams_sorted, current_cfp_order, teams)
           ts == UpdateCfpRank(teams, new_cfp_order)
       IN /\ teams' = ts
          /\ weekly_rankings' = Append(weekly_rankings, deepcopy(new_cfp_order, ts))
          /\ current_cfp_order' = new_cfp_order
    /\ w' = w + 1
    /\ pc' = "week"
    /\ UNCHANGED <<variant, num_teams, num_weeks, matchups, last_week_map,
                   mi, awards>>
    /\ UNCHANGED <<stats, averages>>
    /\ UNCHANGED fnvars

\* return one loop iteration early (the loop bound read as num_weeks - 1).
Return_Early ==
    /\ pc = "week" /\ w >= num_weeks
    /\ pc' = "done"
    /\ teams' = <<>>
    /\ current_cfp_order' = <<>>
    /\ matchups' = <<>>
    /\ last_week_map' = <<>>
    /\ mi' = 0
    /\ awards' = <<>>
    /\ UNCHANGED <<variant, num_teams, num_weeks, weekly_rankings, w>>
    /\ UNCHANGED <<stats, averages>>
    /\ UNCHANGED fnvars

\* return weekly_rankings: the loop is exhausted; the function's other locals
\* go out of scope (w is kept: it is one more than the iterations run).
Return ==
    /\ pc = "week" /\ w > num_weeks
    /\ pc' = "done"
    /\ teams' = <<>>
    /\ current_cfp_order' = <<>>
    /\ matchups' = <<>>
    /\ last_week_map' = <<>>
    /\ mi' = 0
    /\ awards' = <<>>
    /\ UNCHANGED <<variant, num_teams, num_weeks, weekly_rankings, w>>
    /\ UNCHANGED <<stats, averages>>
    /\ UNCHANGED fnvars

\* run_multiple_simulations, one run: the six series of the season returned.
ComputeWeeklyStats ==
    /\ pc = "done"
    /\ pc' = "stats"
    /\ stats' = compute_weekly_stats(weekly_rankings)
    /\ UNCHANGED <<variant, num_teams, num_weeks, teams, current_cfp_order,
                   weekly_rankings, w, matchups, last_week_map, mi, awards,
                   averages>>
    /\ UNCHANGED fnvars

\* run_multiple_simulations with num_runs = 1: the averages over the one run.
AverageRuns ==
    /\ pc = "stats"
    /\ pc' = "averaged"
    /\ averages' = AverageOverRuns(<<stats>>, 1, num_weeks + 1)
    /\ UNCHANGED <<variant, num_teams, num_weeks, teams, current_cfp_order,
                   weekly_rankings, w, matchups, last_week_map, mi, awards,
                   stats>>
    /\ UNCHANGED fnvars

Next ==
    \/ PreseasonStandard
    \/ PreseasonHarsher
    \/ BeginWeek
    \/ BeginWeekIndexError
    \/ PlayMatchup
    \/ EndWeek
    \/ Return
    \/ ComputeWeeklyStats
    \/ AverageRuns

Spec == Init /\ [][Next]_vars

\* The position in simulate_single_season: the statement and the matchup index.
ctl == <<pc, mi>>

\* The control-flow step of every statement of simulate_single_season: the
\* successor position of each position.  Every action of Next is such a step
\* and is enabled whenever its position is the current one.
Advance ==
    \/ pc = "start" /\ pc' = "week" /\ mi' = mi
    \/ pc = "week" /\ w <= num_weeks /\ num_teams % 2 = 0
          /\ pc' = "match" /\ mi' = 1
    \/ pc = "week" /\ w <= num_weeks /\ num_teams % 2 = 1
          /\ pc' = "error" /\ mi' = mi
    \/ pc = "week" /\ w > num_weeks /\ pc' = "done" /\ mi' = 0
    \/ pc = "match" /\ mi <= Len(matchups) /\ pc' = pc /\ mi' = mi + 1
    \/ pc = "match" /\ mi > Len(matchups) /\ pc' = "week" /\ mi' = mi
    \/ pc = "done" /\ pc' = "stats" /\ mi' = mi
    \/ pc = "stats" /\ pc' = "averaged" /\ mi' = mi

\* The same program under a scheduler that keeps running it: the code is
\* sequential and no statement blocks, so the next statement is eventually
\* executed.
SpecFair == Init /\ [][Next]_vars /\ WF_ctl(Advance)

\* ------------------------------------------------------------ one week, larger roster
\* determine_cfp_points scores a rank difference of up to 7 in its nearest
\* bin.
NearBinMax == 7

\* Seasons of one week with the smallest even roster in which two last-week
\* ranks can lie further apart than the nearest bin with a rank between them.
InitOrder == InitSim({NearBinMax + 3}, {1}, Variants) /\ IdleFn

NextOrder ==
    \/ PreseasonStandard
    \/ PreseasonHarsher
    \/ BeginWeek
    \/ PlayMatchup
    \/ EndWeek
    \/ Return

SpecOrder == InitOrder /\ [][NextOrder]_vars

\* ------------------------------------------------------------ the functions alone
\* Calls of the pure functions on every pair of ranks of the default roster.
IdleSim ==
    /\ variant = "Standard" /\ num_teams = 0 /\ num_weeks = 0 /\ pc = "idle"
    /\ teams = <<>> /\ current_cfp_order = <<>> /\ weekly_rankings = <<>>
    /\ w = 0 /\ matchups = <<>> /\ last_week_map = <<>> /\ mi = 0
    /\ awards = <<>> /\ stats = <<>> /\ averages = <<>>

InitFn ==
    /\ IdleSim
    /\ fn = "none"
    /\ arg_a \in 1..DEFAULT_NUM_TEAMS
    /\ arg_b \in 1..DEFAULT_NUM_TEAMS
    /\ arg_win \in BOOLEAN
    /\ ret = 0
    /\ ret_swapped = 0

\* p = probability_of_win(a, b) and, with the sides swapped, probability_of_win(b, a).
CallProbabilityOfWin ==
    /\ fn = "none"
    /\ fn' = "probability_of_win"
    /\ ret' = probability_of_win(arg_a, arg_b)
    /\ ret_swapped' = probability_of_win(arg_b, arg_a)
    /\ UNCHANGED <<arg_a, arg_b, arg_win>>
    /\ UNCHANGED simvars

CallHarsherProbabilityOfWin ==
    /\ fn = "none"
    /\ fn' = "Harsher_probability_of_win"
    /\ ret' = Harsher_probability_of_win(arg_a, arg_b)
    /\ ret_swapped' = Harsher_probability_of_win(arg_b, arg_a)
    /\ UNCHANGED <<arg_a, arg_b, arg_win>>
    /\ UNCHANGED simvars

\* pts_a = determine_cfp_points(cfp_a, cfp_b, a_wins) and the opponent's
\* pts_b = determine_cfp_points(cfp_b, cfp_a, not a_wins).
CallDetermineCfpPoints ==
    /\ fn = "none"
    /\ fn' = "determine_cfp_points"
    /\ ret' = determine_cfp_points(arg_a, arg_b, arg_win)
    /\ ret_swapped' = determine_cfp_points(arg_b, arg_a, ~arg_win)
    /\ UNCHANGED <<arg_a, arg_b, arg_win>>
    /\ UNCHANGED simvars

CallHarsherDetermineCfpPoints ==
    /\ fn = "none"
    /\ fn' = "Harsher_determine_cfp_points"
    /\ ret' = Harsher_determine_cfp_points(arg_a, arg_b, arg_win)
    /\ ret_swapped' = Harsher_determine_cfp_points(arg_b, arg_a, ~arg_win)
    /\ UNCHANGED <<arg_a, arg_b, arg_win>>
    /\ UNCHANGED simvars

NextFn ==
    \/ CallProbabilityOfWin
    \/ CallHarsherProbabilityOfWin
    \/ CallDetermineCfpPoints
    \/ CallHarsherDetermineCfpPoints

SpecFn == InitFn /\ [][NextFn]_vars

\* ------------------------------------------------------------ functions and seasons
\* Either a season is simulated or the pure functions are called on their own.
InitPoints == Init \/ InitFn

NextPoints ==
    \/ pc # "idle" /\ Next
    \/ pc = "idle" /\ NextFn

SpecPoints == InitPoints /\ [][NextPoints]_vars

\* ------------------------------------------------------------ the tiered preseason alone
\* The Harsher file's preseason on the default roster of 134 teams.
InitTier == InitSim({DEFAULT_NUM_TEAMS}, {0}, {"Harsher"}) /\ IdleFn

NextTier ==
    \/ PreseasonHarsher
    \/ Return

SpecTier == InitTier /\ [][NextTier]_vars

\* ------------------------------------------------------------ properties
\* The record of team nm in a snapshot.
SnapOf(snap, nm) == snap[CHOOSE k \in 1..Len(snap) : snap[k].name = nm]

\* The snapshot's cfp ranks, and its true ranks, are 1..n, each held once.
RanksArePermutations(snap, n) ==
    /\ Len(snap) = n
    /\ \A r \in 1..n :
          /\ Cardinality({k \in 1..Len(snap) : snap[k].cfp_rank = r}) = 1
          /\ Cardinality({k \in 1..Len(snap) : snap[k].true_rank = r}) = 1

\* C1: with an even num_teams, in every snapshot recorded so far (week 0 and
\* every later week, either file) the cfp ranks are exactly 1..num_teams, one
\* team each, and so are the true ranks.
C1_PermutationInvariant ==
    num_teams % 2 = 0 =>
        \A k \in 1..Len(weekly_rankings) :
            RanksArePermutations(weekly_rankings[k], num_teams)

\* A finished season of 4 teams and at least 2 weeks in which some team's
\* final cfp rank differs from its preseason one.
C1_Witness ==
    /\ pc = "done" /\ num_teams = 4 /\ Len(weekly_rankings) >= 3
    /\ \E nm \in 1..num_teams :
          SnapOf(weekly_rankings[Len(weekly_rankings)], nm).cfp_rank
              # SnapOf(weekly_rankings[1], nm).cfp_rank

\* C2: in every snapshot after week 0, of two teams with equal season_points
\* the one with the smaller cfp rank in the previous snapshot has the smaller
\* cfp rank.
C2_TieBreakLaw ==
    \A k \in 2..Len(weekly_rankings) :
        LET prev == weekly_rankings[k - 1]
            cur == weekly_rankings[k]
        IN \A i, j \in 1..Len(cur) :
              (/\ cur[i].season_points = cur[j].season_points
               /\ SnapOf(prev, cur[i].name).cfp_rank
                     < SnapOf(prev, cur[j].name).cfp_rank)
              => cur[i].cfp_rank < cur[j].cfp_rank

\* Two teams tied on points after a week, the one with the larger name being
\* the one ranked better the week before (roster order and last week's order
\* disagree).
C2_Witness ==
    \E k \in 2..Len(weekly_rankings) :
        LET prev == weekly_rankings[k - 1]
            cur == weekly_rankings[k]
        IN \E i, j \in 1..Len(cur) :
              /\ cur[i].name > cur[j].name
              /\ cur[i].season_points = cur[j].season_points
              /\ SnapOf(prev, cur[i].name).cfp_rank
                    < SnapOf(prev, cur[j].name).cfp_rank
              /\ cur[i].cfp_rank < cur[j].cfp_rank

\* C3: in every snapshot after week 0, a team with strictly more
\* season_points than another has the strictly smaller cfp rank.
C3_SortedByPointsDescending ==
    \A k \in 2..Len(weekly_rankings) :
        LET cur == weekly_rankings[k]
        IN \A i, j \in 1..Len(cur) :
              cur[i].season_points > cur[j].season_points
              => cur[i].cfp_rank < cur[j].cfp_rank

\* A week after which a team that was ranked below another has more points
\* and is now ranked above it.
C3_Witness ==
    \E k \in 2..Len(weekly_rankings) :
        LET prev == weekly_rankings[k - 1]
            cur == weekly_rankings[k]
        IN \E i, j \in 1..Len(cur) :
              /\ cur[i].season_points > cur[j].season_points
              /\ SnapOf(prev, cur[i].name).cfp_rank
                    > SnapOf(prev, cur[j].name).cfp_rank
              /\ cur[i].cfp_rank < cur[j].cfp_rank

\* C4: while the matchups of week w are being scored, every award made so far
\* in the week is the scoring rule applied to the two teams' cfp ranks in the
\* snapshot of week w-1, whatever points were added earlier in the week.
C4_ScoredFromLastWeekRanks ==
    pc = "match" =>
        \A m \in 1..Len(awards) :
            LET prev == weekly_rankings[w]
                ra == SnapOf(prev, awards[m].a).cfp_rank
                rb == SnapOf(prev, awards[m].b).cfp_rank
            IN /\ awards[m].pts_a
                    = DetermineCfpPoints(variant, ra, rb, awards[m].a_wins)
               /\ awards[m].pts_b
                    = DetermineCfpPoints(variant, rb, ra, ~awards[m].a_wins)

\* Both matchups of a week (week 2 or later) are scored, and when the second
\* was scored a team of the first, ranked below a team of the second last
\* week, had already overtaken it on points; the second matchup's loser was
\* still scored by last week's ranks.
C4_Witness ==
    /\ pc = "match" /\ w >= 2 /\ Len(awards) = 2
    /\ LET prev == weekly_rankings[w]
           a == awards[2].a
           c == awards[1].a
       IN /\ SnapOf(prev, c).cfp_rank > SnapOf(prev, a).cfp_rank
          /\ teams[c].season_points > teams[a].season_points - awards[2].pts_a
          /\ SnapOf(prev, c).season_points < SnapOf(prev, a).season_points
          /\ ~awards[2].a_wins
          /\ awards[2].pts_a = 2

\* The points team nm was awarded in the awards listed.
RECURSIVE AwardedTo(_, _)
AwardedTo(aw, nm) ==
    IF aw = <<>> THEN 0
    ELSE LET r == aw[Len(aw)]
         IN AwardedTo(SubSeq(aw, 1, Len(aw) - 1), nm)
            + (IF r.a = nm THEN r.pts_a ELSE 0)
            + (IF r.b = nm THEN r.pts_b ELSE 0)

AwardCount(aw, nm) ==
    Cardinality({m \in 1..Len(aw) : aw[m].a = nm})
    + Cardinality({m \in 1..Len(aw) : aw[m].b = nm})

\* C5: with an even num_teams, the week's pairing has num_teams/2 matchups and
\* every team is in exactly one of them; once they are all scored, every team
\* has received exactly one award, and its season_points are last week's plus
\* that award.
C5_PairingExhaustsRoster ==
    (pc = "match" /\ num_teams % 2 = 0) =>
        /\ Len(matchups) = num_teams \div 2
        /\ \A nm \in 1..num_teams :
              Cardinality({m \in 1..Len(matchups) : matchups[m][1] = nm - 1})
              + Cardinality({m \in 1..Len(matchups) : matchups[m][2] = nm - 1})
              = 1
        /\ mi > Len(matchups) =>
              \A nm \in 1..num_teams :
                  /\ AwardCount(awards, nm) = 1
                  /\ teams[nm].season_points
                        = SnapOf(weekly_rankings[w], nm).season_points
                          + AwardedTo(awards, nm)

\* All matchups of the second week of a 4-team season have been scored.
C5_Witness ==
    /\ pc = "match" /\ num_teams = 4 /\ mi > Len(matchups)
    /\ Len(awards) = 2 /\ w = 2

\* The standard scoring table, by how far below the opponent is ranked.
StandardTable(own, opp, won) ==
    LET below == opp - own
    IN CASE won /\ below <= 7 -> 5
         [] won /\ below >= 8 /\ below <= 24 -> 4
         [] won /\ below >= 25 -> 3
         [] ~won /\ below < 0 -> 3
         [] ~won /\ below >= 1 /\ below <= 7 -> 2
         [] ~won /\ below >= 8 /\ below <= 24 -> 1
         [] ~won /\ below >= 25 -> 0

\* C6: for distinct ranks, determine_cfp_points (of either file) returns the
\* standard table: win over a stronger opponent or one up to 7 below 5, 8-24
\* below 4, 25 or more below 3; loss to a stronger opponent 3, 1-7 below 2,
\* 8-24 below 1, 25 or more below 0.
C6_StandardScoring ==
    (fn \in {"determine_cfp_points", "Harsher_determine_cfp_points"}
     /\ arg_a # arg_b)
    => ret = StandardTable(arg_a, arg_b, arg_win)

\* A loss to an opponent exactly 7 ranks below, scored 2.
C6_Witness ==
    /\ fn = "determine_cfp_points" /\ ~arg_win /\ arg_b - arg_a = 7
    /\ ret = 2

\* The harsh scoring table.
HarshTable(own, opp, won) ==
    LET below == opp - own
    IN CASE won /\ below < 0 -> 9
         [] won /\ below >= 0 /\ below <= 7 -> 8
         [] won /\ below >= 8 /\ below <= 24 -> 7
         [] won /\ below >= 25 -> 6
         [] ~won /\ below < 0 -> 4
         [] ~won /\ below >= 0 /\ below <= 5 -> 2
         [] ~won /\ below >= 6 /\ below <= 24 -> 1
         [] ~won /\ below >= 25 -> 0

\* C7: for distinct ranks, the scoring rule of the Harsher file returns the
\* harsh table: win 9 / 8 / 7 / 6 over a stronger opponent / one up to 7
\* below / 8-24 below / 25 or more below; loss 4 / 2 / 1 / 0 to a stronger
\* opponent / one 1-5 below / 6-24 below / 25 or more below.
C7_HarshScoring ==
    (fn = "Harsher_determine_cfp_points" /\ arg_a # arg_b)
    => ret = HarshTable(arg_a, arg_b, arg_win)

\* C8: probability_of_win(a, b) + probability_of_win(b, a) is 1 (100
\* hundredths) for every pair of true ranks, in either file.
C8_ComplementarySymmetry ==
    fn \in {"probability_of_win", "Harsher_probability_of_win"}
    => ret + ret_swapped = 100

\* A pair 30 ranks apart: 0.95 one way, 0.05 the other.
C8_Witness ==
    /\ fn = "probability_of_win" /\ arg_b - arg_a = 30
    /\ ret = 95 /\ ret_swapped = 5

\* C9: in the week-0 snapshot of the Standard file every team has
\* cfp_rank = num_teams - true_rank + 1, and the snapshot lists the teams in
\* cfp-rank order 1, 2, ..., num_teams.
C9_InvertedPreseason ==
    (variant = "Standard" /\ Len(weekly_rankings) >= 1) =>
        LET s == weekly_rankings[1]
        IN /\ Len(s) = num_teams
           /\ \A k \in 1..Len(s) :
                 /\ s[k].cfp_rank = num_teams - s[k].true_rank + 1
                 /\ s[k].cfp_rank = k

\* num_teams = 4: true ranks 1, 2, 3, 4 hold cfp ranks 4, 3, 2, 1.
C9_Witness ==
    /\ variant = "Standard" /\ num_teams = 4 /\ Len(weekly_rankings) >= 1
    /\ \A t \in 1..4 : SnapOf(weekly_rankings[1], t).true_rank = t
    /\ SnapOf(weekly_rankings[1], 1).cfp_rank = 4
    /\ SnapOf(weekly_rankings[1], 2).cfp_rank = 3
    /\ SnapOf(weekly_rankings[1], 3).cfp_rank = 2
    /\ SnapOf(weekly_rankings[1], 4).cfp_rank = 1

\* The tier of a rank of the 134-team roster: 1..34, 35..84, 85..134.
TierOf(r) ==
    IF r >= 1 /\ r <= 34 THEN 1
    ELSE IF r >= 35 /\ r <= 84 THEN 2
    ELSE IF r >= 85 /\ r <= 134 THEN 3
    ELSE 0

\* C10: in the week-0 snapshot of the Harsher file with 134 teams, every
\* team's cfp rank lies in the tier of its true rank (1..34, 35..84, 85..134).
C10_TiersKept ==
    (variant = "Harsher" /\ num_teams = 134 /\ Len(weekly_rankings) >= 1) =>
        LET s == weekly_rankings[1]
        IN /\ Len(s) = 134
           /\ \A k \in 1..Len(s) :
                 /\ TierOf(s[k].cfp_rank) # 0
                 /\ TierOf(s[k].cfp_rank) = TierOf(s[k].true_rank)

\* A 134-team preseason in which each tier was really shuffled: in every tier
\* some team's cfp rank differs from its true rank.
C10_Witness ==
    /\ variant = "Harsher" /\ num_teams = 134 /\ Len(weekly_rankings) >= 1
    /\ \A t \in 1..3 :
          \E k \in 1..Len(weekly_rankings[1]) :
              /\ TierOf(weekly_rankings[1][k].true_rank) = t
              /\ weekly_rankings[1][k].cfp_rank # weekly_rankings[1][k].true_rank

\* The season_points of all teams of a snapshot, added up.
RECURSIVE TotalPoints(_)
TotalPoints(snap) ==
    IF snap = <<>> THEN 0
    ELSE snap[Len(snap)].season_points
         + TotalPoints(SubSeq(snap, 1, Len(snap) - 1))

\* At the return exactly num_weeks loop iterations have run and
\* weekly_rankings holds num_weeks + 1 snapshots in week order: the k-th has
\* every team at 0..5(k-1) points and, in total, at least 5 points per matchup
\* played in k-1 weeks.
AllSnapshotsAtReturn ==
    pc = "done" =>
        /\ w = num_weeks + 1
        /\ Len(weekly_rankings) = num_weeks + 1
        /\ \A k \in 1..Len(weekly_rankings) :
              /\ \A i \in 1..Len(weekly_rankings[k]) :
                    weekly_rankings[k][i].season_points \in 0..(5 * (k - 1))
              /\ TotalPoints(weekly_rankings[k])
                    >= 5 * (num_teams \div 2) * (k - 1)

EvenSeasonStarted == pc = "start" /\ num_teams % 2 = 0
Returned == pc = "done"

\* C11: a season with an even num_teams (num_weeks >= 0) always reaches the
\* return, after exactly num_weeks week transitions and with exactly
\* num_weeks + 1 snapshots in week order.
C11_TerminatesWithAllSnapshots ==
    /\ []AllSnapshotsAtReturn
    /\ (EvenSeasonStarted ~> Returned)

\* A 4-team season of 2 weeks has returned its 3 snapshots.
C11_Witness ==
    /\ pc = "done" /\ num_teams = 4 /\ num_weeks = 2
    /\ Len(weekly_rankings) = 3
    /\ TotalPoints(weekly_rankings[3]) > TotalPoints(weekly_rankings[2])

\* C12: no step changes a snapshot that is already in weekly_rankings: every
\* step leaves the snapshots recorded so far in place, field by field and in
\* order, whatever it does to the live roster.
C12_SnapshotsImmutable ==
    [][\A k \in 1..Len(weekly_rankings) :
          /\ Len(weekly_rankings') >= k
          /\ weekly_rankings'[k] = weekly_rankings[k]]_vars

\* Two weeks have been played and a team's live points and cfp rank differ
\* from those in the snapshot of week 1, while its week-0 snapshot still shows
\* 0 points.
C12_Witness ==
    /\ pc = "week" /\ Len(weekly_rankings) >= 3
    /\ \E nm \in 1..num_teams :
          /\ teams[nm].season_points
                # SnapOf(weekly_rankings[2], nm).season_points
          /\ teams[nm].cfp_rank # SnapOf(weekly_rankings[2], nm).cfp_rank
          /\ SnapOf(weekly_rankings[1], nm).season_points = 0

\* The six series of the returned season have been computed.
StatsComputed == pc \in {"stats", "averaged"}

\* C13: whatever the week-0 ranking and whatever follows it, the series
\* compute_weekly_stats returns for a simulated season have biggest_rise 0 and
\* biggest_fall 0 at week 0.
C13_Week0RiseFallZero ==
    StatsComputed =>
        /\ stats.biggest_rise[1] = 0
        /\ stats.biggest_fall[1] = 0

\* Statistics of a two-week season whose final ranking differs from the
\* week-0 ranking and in which ranks moved in week 1.
C13_Witness ==
    /\ pc = "stats" /\ Len(weekly_rankings) = 3
    /\ WeekMap(weekly_rankings[3]) # WeekMap(weekly_rankings[1])
    /\ stats.biggest_rise[2] > 0
    /\ stats.biggest_rise[1] = 0

\* C14: with num_runs = 1 each of the six averaged series has one entry per
\* week 0..num_weeks and each entry equals, as a number, the entry of the
\* series compute_weekly_stats returned for that one season.
C14_SingleRunAverageIsTheRun ==
    pc = "averaged" =>
        /\ \A series \in {"avg_diff", "avg_diff25"} :
              /\ Len(averages[series]) = num_weeks + 1
              /\ Len(stats[series]) = num_weeks + 1
              /\ \A k \in 1..(num_weeks + 1) :
                    averages[series][k] = stats[series][k]
        /\ \A series \in {"max_diff", "biggest_rise", "biggest_fall",
                          "max_diff25"} :
              /\ Len(averages[series]) = num_weeks + 1
              /\ Len(stats[series]) = num_weeks + 1
              /\ \A k \in 1..(num_weeks + 1) :
                    averages[series][k] = float(stats[series][k])

\* The averages of a two-week season with a fractional average difference and
\* a rise in week 2.
C14_Witness ==
    /\ pc = "averaged" /\ num_weeks = 2
    /\ averages.avg_diff[3][2] > 1
    /\ averages.biggest_rise[3][1] > 0
    /\ averages.max_diff[1][1] > 0

\* C17: in the statistics of a simulated season, at every week from 1 on the
\* biggest rise and the biggest fall are at least 0, and one is 0 exactly
\* when the other is.
C17_RiseAndFallTogether ==
    StatsComputed =>
        \A k \in 2..Len(stats.biggest_rise) :
            /\ stats.biggest_rise[k] >= 0
            /\ stats.biggest_fall[k] >= 0
            /\ (stats.biggest_rise[k] = 0) <=> (stats.biggest_fall[k] = 0)

\* Statistics of a season with a week in which no rank moved and a week in
\* which the biggest rise and the biggest fall differ.
C17_Witness ==
    /\ pc = "stats"
    /\ \E j, k \in 2..Len(stats.biggest_rise) :
          /\ stats.biggest_rise[j] = 0 /\ stats.biggest_fall[j] = 0
          /\ stats.biggest_rise[k] > stats.biggest_fall[k]
          /\ stats.biggest_fall[k] > 0

\* C15: a call with an odd num_teams is rejected before the simulation starts:
\* no roster is built, no snapshot is recorded, no week is begun and no
\* statistics are produced; the call is either not yet started or has failed.
C15_OddRejectedBeforeSimulation ==
    num_teams % 2 = 1 =>
        /\ pc \in {"start", "error"}
        /\ teams = <<>>
        /\ weekly_rankings = <<>>
        /\ w = 0
        /\ stats = <<>>

\* A week's matchups have all been scored and the week closed: the roster as
\* it was when the week began (the previous snapshot, in creation order) and
\* the outcome of each matchup.
WeekClosed == pc = "week" /\ w >= 2 /\ Len(awards) = Len(matchups)
RosterAtWeekStart ==
    [nm \in 1..num_teams |->
        SnapOf(weekly_rankings[Len(weekly_rankings) - 1], nm)]
WeekOutcomes == [i \in 1..Len(awards) |-> awards[i].a_wins]

\* Every order in which the positions in S can be listed.
RECURSIVE AllOrders(_)
AllOrders(S) ==
    IF S = {} THEN {<<>>}
    ELSE UNION {{<<x>> \o o : o \in AllOrders(S \ {x})} : x \in S}

\* C16: when a week is closed, scoring that week's matchups in any order,
\* each with the outcome it had, from the roster and the rank map the week
\* began with, gives every team the season_points it now has and changes
\* nothing else, and the committee order that follows from that roster is
\* the order the week ended with.
C16_MatchupOrderIndependent ==
    WeekClosed =>
        /\ \A order \in AllOrders(1..Len(matchups)) :
              ScoreMatchupsInOrder(variant, RosterAtWeekStart, last_week_map,
                                   matchups, WeekOutcomes, order)
              = [nm \in 1..num_teams |->
                   [RosterAtWeekStart[nm] EXCEPT
                       !.season_points = teams[nm].season_points]]
        /\ LET teams_sorted ==
                   StableSortReverse(NamesOf(teams),
                       [nm \in 1..Len(teams) |-> teams[nm].season_points])
           IN BreakTies(variant, teams_sorted,
                        NamesOf(weekly_rankings[Len(weekly_rankings) - 1]),
                        teams) = current_cfp_order

\* A closed week with a matchup between teams ranked 8 or more apart last
\* week, scored after a matchup between two teams ranked between them.
C16_Witness ==
    /\ WeekClosed
    /\ \E i, j \in 1..Len(awards) :
          /\ i < j
          /\ abs(last_week_map[awards[j].a] - last_week_map[awards[j].b]) >= 8
          /\ \A nm \in {awards[i].a, awards[i].b} :
                \E lo, hi \in {last_week_map[awards[j].a],
                               last_week_map[awards[j].b]} :
                    lo < last_week_map[nm] /\ last_week_map[nm] < hi

\* The awards of a matchup, winner's first, are ordered and sum to 5..8.
FairSplit(winner_pts, loser_pts) ==
    /\ winner_pts >= loser_pts
    /\ winner_pts + loser_pts \in 5..8

\* C18: whenever determine_cfp_points (either file) scores the two sides of a
\* matchup between distinct last-week ranks, called on its own on any two
\* ranks of the default roster or from the matchup loop of a season, the
\* winner gets at least as many points as the loser and the two awards sum
\* to 5, 6, 7 or 8; and in the snapshot of week k every team has between 0 and
\* 5k season_points and at least as many as in the snapshot of week k - 1.
C18_AwardsAndSeasonPoints ==
    /\ (fn \in {"determine_cfp_points", "Harsher_determine_cfp_points"}
        /\ arg_a # arg_b)
       => IF arg_win THEN FairSplit(ret, ret_swapped)
                     ELSE FairSplit(ret_swapped, ret)
    /\ \A i \in 1..Len(awards) :
          IF awards[i].a_wins THEN FairSplit(awards[i].pts_a, awards[i].pts_b)
                              ELSE FairSplit(awards[i].pts_b, awards[i].pts_a)
    /\ \A k \in 1..Len(weekly_rankings) :
          \A i \in 1..Len(weekly_rankings[k]) :
             LET t == weekly_rankings[k][i]
             IN /\ t.season_points \in 0..(5 * (k - 1))
                /\ k > 1 =>
                     t.season_points
                        >= SnapOf(weekly_rankings[k - 1], t.name).season_points

\* The second week of a season has been scored: one matchup was an upset
\* (awards 5 and 2), the other was not (awards 5 and 3), and a team has won
\* 5 points in both weeks.
C18_Witness ==
    /\ pc = "week" /\ Len(weekly_rankings) = 3
    /\ \E i, j \in 1..Len(awards) :
          /\ awards[i].pts_a + awards[i].pts_b = 7
          /\ awards[j].pts_a + awards[j].pts_b = 8
    /\ \E i \in 1..Len(weekly_rankings[3]) :
          weekly_rankings[3][i].season_points = 10

====
